---- MODULE Spec2Model ----
(***************************************************************************)
(* Model of szk-git/fullstack-chat: the API service (chat sessions,        *)
(* messages and per-chat settings in a relational database) and the AI     *)
(* service (model loader and generation service) it proxies to.            *)
(*                                                                         *)
(* Conventions                                                             *)
(*  - a Python Optional value is a set: None is {} and a present value x   *)
(*    is {x};                                                              *)
(*  - a text is a sequence of chunks (strings); user-supplied texts are    *)
(*    sequences of one-character chunks, fixed phrases are one chunk;      *)
(*  - temperatures are in hundredths (0.7 is 70, 0.1 is 10, 1.0 is 100);   *)
(*  - a UUID is a number drawn from a counter, never reused;               *)
(*  - created_at / func.now() is a logical clock that ticks with every     *)
(*    inserted message.                                                    *)
(***************************************************************************)
EXTENDS Integers, Sequences, FiniteSets, TLC

\* ------------------------------------------------------------------ bounds
\* chats ever created
MaxChats == 1
\* messages ever inserted
MaxMsgs == 3
\* send-message requests awaiting the AI service at the same time
MaxInflight == 1

\* ------------------------------------------------------------ Python values
None == {}
Some(x) == {x}
Val(o) == CHOOSE x \in o : TRUE

EmptyMap == [k \in {} |-> None]

Min(a, b) == IF a <= b THEN a ELSE b
Max(a, b) == IF a >= b THEN a ELSE b

\* ------------------------------------------------------------------- texts
WS == " "

RECURSIVE lstrip(_)
lstrip(t) == IF Len(t) > 0 /\ Head(t) = WS THEN lstrip(Tail(t)) ELSE t

RECURSIVE rstrip(_)
rstrip(t) == IF Len(t) > 0 /\ t[Len(t)] = WS THEN rstrip(SubSeq(t, 1, Len(t) - 1)) ELSE t

\* str.strip()
strip(t) == rstrip(lstrip(t))

\* Python truthiness of an Optional[str]
TruthyText(o) == o # None /\ Len(Val(o)) > 0

\* ------------------------------------------------------------ input domains
Sessions == {"s1", "s2"}
ChatIds == 1 .. MaxChats

NewChatTitle == <<"New Chat">>
DefaultModel == <<"facebook/", "blenderbot", "-400M-distill">>
DialoGPTSmall == <<"microsoft/", "DialoGPT", "-small">>

ApologyText == <<"I'm sorry, I'm experiencing technical difficulties. Please try again.">>

\* ------------------------------------------------------------------- state
VARIABLES
    chats,          \* table chat_sessions: id -> row
    messages,       \* table messages: rows in created_at order
    chat_settings,  \* table chat_settings: set of rows
    clock,          \* func.now(): number of messages inserted so far
    next_chat_id,   \* the next fresh UUID
    inflight,       \* send-message requests suspended at the await of the AI call
    response,       \* the HTTP response of the last completed API request
    loaded_models,  \* ModelLoader.loaded_models: name -> entry
    current_model,  \* ModelLoader.current_model
    ai_result,      \* outcome of the last request served by the AI service
    lifespan        \* main.lifespan of the API service: its position and what it established

db == <<chats, messages, chat_settings>>
api_vars == <<chats, messages, chat_settings, clock, next_chat_id, inflight, response>>
ai_vars == <<loaded_models, current_model, ai_result>>
vars == <<chats, messages, chat_settings, clock, next_chat_id, inflight, response,
          loaded_models, current_model, ai_result, lifespan>>

\* ------------------------------------------------------------- repositories
Reverse(s) == [i \in 1 .. Len(s) |-> s[Len(s) + 1 - i]]
Take(s, n) == SubSeq(s, 1, Min(n, Len(s)))

\* db.query(Message).filter(Message.session_id == chat_id), in created_at order
chat_messages(ms, chat_id) == SelectSeq(ms, LAMBDA m : m.session_id = chat_id)

\* get_conversation_context without the final reversed()
get_conversation_context_newest_first(ms, chat_id, max_messages) ==
    Take(Reverse(chat_messages(ms, chat_id)), max_messages)

\* MessageRepository.get_conversation_context: newest first, limited, reversed
get_conversation_context(ms, chat_id, max_messages) ==
    Reverse(Take(Reverse(chat_messages(ms, chat_id)), max_messages))

\* MessageRepository.add_message / BaseRepository.create: the inserted row
new_message(now, chat_id, role, content, message_metadata) ==
    [id |-> now, session_id |-> chat_id, role |-> role, content |-> content,
     message_metadata |-> message_metadata, created_at |-> now]

\* ChatRepository._sync_message_count: the number of rows of the chat
actual_count(ms, chat_id) == Len(chat_messages(ms, chat_id))

\* update_last_message_time counting one more message instead of the rows
update_last_message_time_increment(cs, ms, chat_id, now, update_count) ==
    IF chat_id \in DOMAIN cs
    THEN [cs EXCEPT ![chat_id].last_message_at = Some(now),
                    ![chat_id].message_count = IF update_count THEN @ + 1 ELSE @]
    ELSE cs

\* ChatRepository.update_last_message_time
update_last_message_time(cs, ms, chat_id, now, update_count) ==
    IF chat_id \in DOMAIN cs
    THEN [cs EXCEPT ![chat_id].last_message_at = Some(now),
                    ![chat_id].message_count =
                        IF update_count THEN actual_count(ms, chat_id) ELSE @]
    ELSE cs

\* ChatSettingsRepository.get_by_session_id
get_by_session_id(st, chat_id) ==
    IF \E r \in st : r.session_id = chat_id
    THEN Some(CHOOSE r \in st : r.session_id = chat_id)
    ELSE None

\* the row ChatSettingsRepository.get_or_create_by_session_id inserts
default_settings(chat_id) ==
    [session_id |-> chat_id, temperature |-> Some("0.7"), max_tokens |-> Some(1000),
     system_prompt |-> None]

\* get_or_create_by_session_id inserting a default row without looking one up
get_or_create_always_inserts(st, chat_id) ==
    [settings |-> default_settings(chat_id),
     table |-> st \cup {default_settings(chat_id)}, created |-> TRUE]

\* ChatSettingsRepository.get_or_create_by_session_id: the row and the table after
get_or_create_by_session_id(st, chat_id) ==
    LET found == get_by_session_id(st, chat_id) IN
    IF found # None
    THEN [settings |-> Val(found), table |-> st, created |-> FALSE]
    ELSE [settings |-> default_settings(chat_id),
          table |-> st \cup {default_settings(chat_id)}, created |-> TRUE]

\* what dict() without exclude_unset would hand to BaseRepository.update
schema_defaults ==
    [temperature |-> Some("0.7"), max_tokens |-> Some(1000), system_prompt |-> None]

update_without_exclude_unset(db_obj, update_data) ==
    [f \in DOMAIN db_obj |->
        IF f \in DOMAIN update_data THEN update_data[f]
        ELSE IF f \in DOMAIN schema_defaults THEN schema_defaults[f]
        ELSE db_obj[f]]

\* BaseRepository.update: update_data is obj_in.dict(exclude_unset=True)
update(db_obj, update_data) ==
    [f \in DOMAIN db_obj |-> IF f \in DOMAIN update_data THEN update_data[f] ELSE db_obj[f]]

\* "if not chat or chat.session_id != session_id" of the ChatService methods
chat_of_session(chat_id, session_id) ==
    chat_id \in DOMAIN chats /\ chats[chat_id].session_id = session_id

\* a relationship without the delete cascade: the rows of the chat stay
cascade_messages_none(ms, chat_id) == ms

\* ORM cascade "all, delete-orphan" of ChatSession.messages / ChatSession.settings
cascade_messages(ms, chat_id) == SelectSeq(ms, LAMBDA m : m.session_id # chat_id)
cascade_settings(st, chat_id) == {r \in st : r.session_id # chat_id}

\* ------------------------------------------------------------ HTTP responses
Resp(op, session_id, chat_id, request, status, body) ==
    [op |-> op, session_id |-> session_id, chat_id |-> chat_id, request |-> request,
     status |-> status, body |-> body]

NoBody == EmptyMap

\* no response was sent by the last step
NoResponse == Resp("none", "none", 0, NoBody, 0, NoBody)

\* =============================================================== AI service
\* DEFAULT_MODELS of ModelLoader.__init__
AvailableModels == <<DefaultModel, DialoGPTSmall>>

\* str.lower(), chunk by chunk
lower_chunk(c) ==
    CASE c = "BlenderBot" -> "blenderbot"
      [] c = "DialoGPT" -> "dialogpt"
      [] c = "Facebook/" -> "facebook/"
      [] OTHER -> c

lower(name) == [i \in 1 .. Len(name) |-> lower_chunk(name[i])]

\* "word in text" for a one-chunk word
has_chunk(name, word) == \E i \in 1 .. Len(name) : name[i] = word

\* ModelLoader._get_model_type
get_model_type(model_name) ==
    IF has_chunk(lower(model_name), "blenderbot") THEN "conversational"
    ELSE IF has_chunk(lower(model_name), "dialogpt") THEN "dialog"
    ELSE "text-generation"

\* the branch of load_model with the lower() dropped from its test
model_classes_case_sensitive(model_name) ==
    IF has_chunk(model_name, "blenderbot") THEN "Blenderbot" ELSE "AutoCausalLM"

\* ModelLoader.load_model: the model/tokenizer classes the name is loaded with
model_classes(model_name) ==
    IF has_chunk(lower(model_name), "blenderbot") THEN "Blenderbot" ELSE "AutoCausalLM"

\* model_name in self.loaded_models (an insertion-ordered dict, as a sequence)
is_model_loaded(lm, model_name) == \E i \in 1 .. Len(lm) : lm[i].name = model_name

entry_of(lm, model_name) ==
    lm[CHOOSE i \in 1 .. Len(lm) : lm[i].name = model_name]

\* load_model without its "already loaded" return
load_model_without_loaded_check(lm, cur, model_name, pretrained_ok) ==
    IF ~pretrained_ok
    THEN [loaded_models |-> lm, current_model |-> cur, success |-> FALSE]
    ELSE [loaded_models |->
              Append(SelectSeq(lm, LAMBDA e : e.name # model_name),
                     [name |-> model_name, model |-> model_classes(model_name),
                      type |-> get_model_type(model_name)]),
          current_model |-> IF cur = None THEN Some(model_name) ELSE cur,
          success |-> TRUE]

\* ModelLoader.load_model; pretrained_ok is whether from_pretrained returns
load_model(lm, cur, model_name, pretrained_ok) ==
    IF is_model_loaded(lm, model_name)
    THEN [loaded_models |-> lm, current_model |-> cur, success |-> TRUE]
    ELSE IF ~pretrained_ok
    THEN [loaded_models |-> lm, current_model |-> cur, success |-> FALSE]
    ELSE [loaded_models |->
              Append(lm, [name |-> model_name, model |-> model_classes(model_name),
                          type |-> get_model_type(model_name)]),
          current_model |-> IF cur = None THEN Some(model_name) ELSE cur,
          success |-> TRUE]

\* unload_model without its "not loaded" return
unload_model_without_loaded_check(lm, cur, model_name) ==
    [loaded_models |-> SelectSeq(lm, LAMBDA e : e.name # model_name),
     current_model |-> IF cur = Some(model_name) THEN None ELSE cur,
     success |-> TRUE]

\* unload_model without the update of current_model
unload_model_keeps_current(lm, cur, model_name) ==
    IF ~is_model_loaded(lm, model_name)
    THEN [loaded_models |-> lm, current_model |-> cur, success |-> FALSE]
    ELSE [loaded_models |-> SelectSeq(lm, LAMBDA e : e.name # model_name),
          current_model |-> cur, success |-> TRUE]

\* ModelLoader.unload_model
unload_model(lm, cur, model_name) ==
    IF ~is_model_loaded(lm, model_name)
    THEN [loaded_models |-> lm, current_model |-> cur, success |-> FALSE]
    ELSE LET rest == SelectSeq(lm, LAMBDA e : e.name # model_name) IN
         [loaded_models |-> rest,
          current_model |->
              IF cur = Some(model_name)
              THEN (IF Len(rest) > 0 THEN Some(rest[1].name) ELSE None)
              ELSE cur,
          success |-> TRUE]

\* set_current_model reporting success without the assignment
set_current_model_without_assignment(lm, cur, model_name) ==
    IF ~is_model_loaded(lm, model_name)
    THEN [current_model |-> cur, success |-> FALSE]
    ELSE [current_model |-> cur, success |-> TRUE]

\* ModelLoader.set_current_model
set_current_model(lm, cur, model_name) ==
    IF ~is_model_loaded(lm, model_name)
    THEN [current_model |-> cur, success |-> FALSE]
    ELSE [current_model |-> Some(model_name), success |-> TRUE]

\* ---- texts produced by the decoding routines
BlenderbotGreeting == <<"Hello! How can I help you today?">>
BlenderbotRephrase == <<"I'm here to help! Could you please rephrase your question?">>
DialogptGreeting == <<"Hello! I'm ready to chat with you.">>
DialogptFallback == <<"I'm here to chat! What would you like to talk about?">>

IsPrefix(p, t) == Len(p) <= Len(t) /\ SubSeq(t, 1, Len(p)) = p

\* "sub in text"
Contains(t, sub) == \E i \in 0 .. Len(t) : IsPrefix(sub, SubSeq(t, i + 1, Len(t)))

\* text.replace(sub, "")
RECURSIVE remove_all(_, _)
remove_all(t, sub) ==
    IF Len(sub) = 0 \/ Len(t) = 0 THEN t
    ELSE IF IsPrefix(sub, t) THEN remove_all(SubSeq(t, Len(sub) + 1, Len(t)), sub)
    ELSE <<Head(t)>> \o remove_all(Tail(t), sub)

\* contents of the messages with one of the roles, in order
contents_with_role(msgs, roles) ==
    LET sel == SelectSeq(msgs, LAMBDA m : m.role \in roles) IN
    [i \in 1 .. Len(sel) |-> sel[i].content]

\* what model.generate + tokenizer.decode may yield for an input text: an
\* exception, or a decoded text (empty, blank, a reply, the input echoed)
GenOutcomes == {"raise", "empty", "blank", "reply", "echo", "echo_reply"}

decoded(gen, input_text) ==
    CASE gen = "empty" -> <<>>
      [] gen = "blank" -> <<WS>>
      [] gen = "reply" -> <<"Sure.">>
      [] gen = "echo" -> input_text
      [] gen = "echo_reply" -> input_text \o <<WS, "Sure.">>
      [] OTHER -> <<>>

\* _generate_blenderbot_response returning the decoded text as it is, without
\* the "or" default for an empty one
generate_blenderbot_response_as_decoded(msgs, gen) ==
    LET user_messages == contents_with_role(msgs, {"user"}) IN
    IF Len(user_messages) = 0 THEN [raised |-> FALSE, response |-> BlenderbotGreeting]
    ELSE IF gen = "raise" THEN [raised |-> TRUE, response |-> <<>>]
    ELSE LET input_text == user_messages[Len(user_messages)]
             out == decoded(gen, input_text)
             cleaned == IF Contains(out, input_text)
                        THEN strip(remove_all(out, input_text)) ELSE out
         IN [raised |-> FALSE, response |-> cleaned]

\* ModelLoader._generate_blenderbot_response
generate_blenderbot_response(msgs, gen) ==
    LET user_messages == contents_with_role(msgs, {"user"}) IN
    IF Len(user_messages) = 0 THEN [raised |-> FALSE, response |-> BlenderbotGreeting]
    ELSE IF gen = "raise" THEN [raised |-> TRUE, response |-> <<>>]
    ELSE LET input_text == user_messages[Len(user_messages)]
             out == decoded(gen, input_text)
             cleaned == IF Contains(out, input_text)
                        THEN strip(remove_all(out, input_text)) ELSE out
         IN [raised |-> FALSE,
             response |-> IF Len(cleaned) > 0 THEN cleaned ELSE BlenderbotRephrase]

\* ModelLoader._generate_dialogpt_response
generate_dialogpt_response(msgs, gen) ==
    LET recent == SubSeq(msgs, Max(1, Len(msgs) - 4), Len(msgs))
        conversation == contents_with_role(recent, {"user", "assistant"})
    IN
    IF Len(conversation) = 0 THEN [raised |-> FALSE, response |-> DialogptGreeting]
    ELSE IF gen = "raise" THEN [raised |-> TRUE, response |-> <<>>]
    ELSE LET out == strip(decoded(gen, conversation[Len(conversation)])) IN
         [raised |-> FALSE, response |-> IF Len(out) > 0 THEN out ELSE DialogptFallback]

\* dict.get(key, default) on a parameter map whose values are Optional numbers
param_get(params, key, default) == IF key \in DOMAIN params THEN params[key] ELSE Some(default)

NoDecode == [routine |-> "none", max_length |-> 0, temperature |-> 0, do_sample |-> FALSE]

\* the length limit of generate_response without the cap
max_length_uncapped(max_tokens) == max_tokens

\* "min(params.get('max_tokens', 150), 500)"
max_length_of(max_tokens) == Min(max_tokens, 500)

\* the temperature of generate_response with the lower clamp only
temperature_unclamped_above(t) == Max(10, t)

\* "max(0.1, min(params.get('temperature', 0.8), 1.0))", in hundredths
temperature_of(t) == Max(10, Min(t, 100))

\* ModelLoader.generate_response; a None parameter value makes min() raise
ModelLoader_generate_response(lm, model_name, msgs, params, gen) ==
    IF ~is_model_loaded(lm, model_name)
    THEN [raised |-> TRUE, response |-> <<>>, decode |-> NoDecode]
    ELSE LET max_tokens == param_get(params, "max_tokens", 150)
             temp == param_get(params, "temperature", 80)
         IN
         IF max_tokens = None \/ temp = None
         THEN [raised |-> TRUE, response |-> <<>>, decode |-> NoDecode]
         ELSE LET max_length == max_length_of(Val(max_tokens))
                  temperature == temperature_of(Val(temp))
                  do_sample == temperature > 10
                  model_type == entry_of(lm, model_name).type
                  routine == IF model_type = "conversational" THEN "blenderbot"
                             ELSE "dialogpt"
                  out == IF routine = "blenderbot"
                         THEN generate_blenderbot_response(msgs, gen)
                         ELSE generate_dialogpt_response(msgs, gen)
              IN [raised |-> out.raised, response |-> out.response,
                  decode |-> [routine |-> routine, max_length |-> max_length,
                              temperature |-> temperature, do_sample |-> do_sample]]

\* ---- GenerationService
PathChunks == {"facebook/", "microsoft/", "Facebook/"}

\* model_id.split("/")[-1]
RECURSIVE last_path_component(_)
last_path_component(name) ==
    IF \E i \in 1 .. Len(name) : name[i] \in PathChunks
    THEN last_path_component(Tail(name))
    ELSE name

\* GenerationService._get_model_display_name
get_model_display_name(model_id) ==
    CASE model_id = DefaultModel -> <<"BlenderBot">>
      [] model_id = DialoGPTSmall -> <<"DialoGPT">>
      [] OTHER -> last_path_component(model_id)

\* _generate_fallback_response quoting the first user message instead of the last
generate_fallback_response_first_user(model_id, msgs) ==
    LET user_messages == contents_with_role(msgs, {"user"}) IN
    IF Len(user_messages) = 0
    THEN <<"Hello! I'm ">> \o get_model_display_name(model_id)
            \o <<". How can I help you today?">>
    ELSE <<"I understand you're asking about '">> \o user_messages[1]
            \o <<"'. I'm ">> \o get_model_display_name(model_id)
            \o <<", and I'm here to help, though I'm currently running in a limited mode.">>

\* GenerationService._generate_fallback_response
generate_fallback_response(model_id, msgs) ==
    LET user_messages == contents_with_role(msgs, {"user"}) IN
    IF Len(user_messages) = 0
    THEN <<"Hello! I'm ">> \o get_model_display_name(model_id)
            \o <<". How can I help you today?">>
    ELSE <<"I understand you're asking about '">> \o user_messages[Len(user_messages)]
            \o <<"'. I'm ">> \o get_model_display_name(model_id)
            \o <<", and I'm here to help, though I'm currently running in a limited mode.">>

\* the try block of GenerationService.generate_response.  nd.load is whether
\* from_pretrained returns, nd.gen what the decoding yields
generation_result(ld, g) ==
    [raised |-> g.raised, response |-> g.response, decode |-> g.decode,
     loaded_models |-> ld.loaded_models, current_model |-> ld.current_model]

generation_loaded(ld, model_id, msgs, params, nd) ==
    IF ~ld.success
    THEN [raised |-> FALSE, response |-> generate_fallback_response(model_id, msgs),
          decode |-> NoDecode, loaded_models |-> ld.loaded_models,
          current_model |-> ld.current_model]
    ELSE generation_result(ld, ModelLoader_generate_response(ld.loaded_models, model_id,
                                                             msgs, params, nd.gen))

generation_try(lm, cur, model_id, msgs, params, nd) ==
    generation_loaded(IF is_model_loaded(lm, model_id)
                      THEN [loaded_models |-> lm, current_model |-> cur, success |-> TRUE]
                      ELSE load_model(lm, cur, model_id, nd.load),
                      model_id, msgs, params, nd)

\* generate_response with its "except Exception" handler removed
generate_response_no_except(lm, cur, model_id, msgs, params, nd) ==
    generation_try(lm, cur, model_id, msgs, params, nd)

\* the "except Exception" handler of generate_response on the outcome t of
\* its try block
except_fallback(t, model_id, msgs) ==
    IF t.raised
    THEN [t EXCEPT !.raised = FALSE,
                   !.response = generate_fallback_response(model_id, msgs)]
    ELSE t

\* GenerationService.generate_response
GenerationService_generate_response(lm, cur, model_id, msgs, params, nd) ==
    except_fallback(generation_try(lm, cur, model_id, msgs, params, nd), model_id, msgs)

\* POST /generate (main.generate_response) on a request [model, messages, parameters]
generate_answer(target_model, g) ==
    [status |-> IF g.raised THEN 500 ELSE 200,
     response |-> IF g.raised THEN <<>> ELSE g.response,
     model |-> target_model, decode |-> g.decode, raised |-> g.raised,
     loaded_models |-> g.loaded_models, current_model |-> g.current_model]

generate_endpoint(lm, cur, request, nd) ==
    LET cur1 == IF cur = None /\ Len(AvailableModels) > 0
                THEN Some(AvailableModels[1]) ELSE cur
        target_model == IF TruthyText(request.model) THEN request.model ELSE cur1
        chat_settings_ == IF request.parameters = None THEN EmptyMap
                          ELSE Val(request.parameters)
    IN
    IF target_model = None
    THEN [status |-> 500, response |-> <<>>, model |-> None, decode |-> NoDecode,
          raised |-> TRUE, loaded_models |-> lm, current_model |-> cur1]
    ELSE generate_answer(target_model,
             GenerationService_generate_response(lm, cur1, Val(target_model),
                                                 request.messages, chat_settings_, nd))

NoReply == [status |-> 0, response |-> <<>>, model |-> None, decode |-> NoDecode]

\* ============================================================== API service
\* max_messages of the get_conversation_context call of the send-message path
MaxContext == 10
\* default message_limit of GET /chats/{chat_id}
DefaultMessageLimit == 50

\* float(str): the strings Python parses, in hundredths; anything else is a ValueError
float_ok(s) == s \in {"0.7", "1.5", "0.05"}

float_of(s) ==
    CASE s = "0.7" -> 70
      [] s = "1.5" -> 150
      [] s = "0.05" -> 5
      [] OTHER -> 0

as_ai_messages(rows) == [i \in 1 .. Len(rows) |-> [role |-> rows[i].role, content |-> rows[i].content]]

\* "if chat_settings.system_prompt and chat_settings.system_prompt.strip()"
system_prompt_messages(system_prompt) ==
    IF TruthyText(system_prompt) /\ Len(strip(Val(system_prompt))) > 0
    THEN <<[role |-> "system", content |-> Val(system_prompt)]>>
    ELSE <<>>

\* "ai_parameters = {temperature: ..., max_length: ...}"
ai_parameters_of(settings) ==
    [temperature |->
        Some(IF settings.temperature # None /\ Val(settings.temperature) # ""
             THEN float_of(Val(settings.temperature)) ELSE 70),
     max_length |->
        Some(IF settings.max_tokens # None /\ Val(settings.max_tokens) # 0
             THEN Val(settings.max_tokens) ELSE 1000)]

\* _send_message_to_chat_internal up to its await of the AI call, on the row
\* chat: the tables after it, whether float() raised, and the suspended request
send_begin(chat, origin, session_id, request) ==
    LET user_message == new_message(clock + 1, chat.id, "user", request.content, EmptyMap)
        ms1 == Append(messages, user_message)
        context_messages == get_conversation_context(ms1, chat.id, MaxContext)
        goc == get_or_create_by_session_id(chat_settings, chat.id)
        settings == goc.settings
        ai_messages == system_prompt_messages(settings.system_prompt)
                          \o as_ai_messages(context_messages)
        raised == /\ settings.temperature # None
                  /\ Val(settings.temperature) # ""
                  /\ ~float_ok(Val(settings.temperature))
        base == ai_parameters_of(settings)
        ai_parameters == IF DOMAIN request.model_parameters # {}
                         THEN request.model_parameters @@ base ELSE base
    IN [messages |-> ms1, chat_settings |-> goc.table, clock |-> clock + 1,
        raised |-> raised,
        pending |-> [origin |-> origin, session_id |-> session_id, chat_id |-> chat.id,
                     user_message |-> user_message, model |-> chat.model_name,
                     messages |-> ai_messages, parameters |-> ai_parameters,
                     settings |-> settings,
                     request |-> request,
                     stale_count |-> chat.message_count,
                     stage |-> "sent", reply |-> NoReply]]

\* ChatService._generate_title_from_message (max_length = 50)
first_sentence(message) ==
    IF \E i \in 1 .. Len(message) : message[i] = "."
    THEN SubSeq(message, 1, (CHOOSE i \in 1 .. Len(message) :
                                /\ message[i] = "."
                                /\ \A j \in 1 .. i - 1 : message[j] # ".") - 1)
    ELSE message

generate_title_from_message(message) ==
    LET title == strip(first_sentence(message))
        cut == IF Len(title) > 50 THEN SubSeq(title, 1, 47) \o <<".", ".", ".">> ELSE title
    IN IF Len(cut) > 0 THEN cut ELSE NewChatTitle

\* POST /chats/ (create_chat): without an initial message the chat row is all
create_chat(session_id, request) ==
    /\ next_chat_id' = next_chat_id + 1
    /\ LET chat == [id |-> next_chat_id, session_id |-> session_id,
                    title |-> IF TruthyText(request.title) THEN Val(request.title)
                              ELSE NewChatTitle,
                    model_name |-> request.model_name, is_archived |-> FALSE,
                    is_pinned |-> FALSE, message_count |-> 0, last_message_at |-> None]
       IN IF ~TruthyText(request.initial_message)
          THEN /\ chats' = chats @@ (chat.id :> chat)
               /\ response' = Resp("create_chat", session_id, chat.id, request, 200,
                                   [chat |-> chat, message |-> None])
               /\ UNCHANGED <<messages, chat_settings, clock, inflight>>
          ELSE LET b == send_begin(chat, "create", session_id,
                                   [content |-> Val(request.initial_message),
                                    model_parameters |-> EmptyMap,
                                    title |-> request.title,
                                    model_name |-> request.model_name,
                                    initial_message |-> request.initial_message])
               IN /\ chats' = chats @@ (chat.id :> chat)
                  /\ messages' = b.messages
                  /\ chat_settings' = b.chat_settings
                  /\ clock' = b.clock
                  /\ inflight' = inflight \cup {b.pending}
                  /\ response' = NoResponse
    /\ UNCHANGED <<ai_vars, lifespan>>

\* ChatRepository.get_chat_with_messages: the rows it assigns to chat.messages
recent_messages(ms, chat_id, message_limit) ==
    Reverse(Take(Reverse(chat_messages(ms, chat_id)), message_limit))

\* GET /chats/{chat_id}.  chat.messages is a delete-orphan relationship: the
\* rows left out of the assigned list are deleted by the next commit, which
\* happens only when the settings row is created; that commit also expires the
\* chat instance whose __dict__ the handler returns, so the response model
\* fails validation.
get_chat(session_id, chat_id, message_limit) ==
    /\ IF ~chat_of_session(chat_id, session_id)
       THEN /\ response' = Resp("get_chat", session_id, chat_id, [message_limit |-> message_limit], 404, NoBody)
            /\ UNCHANGED <<messages, chat_settings>>
       ELSE LET recent == recent_messages(messages, chat_id, message_limit)
                goc == get_or_create_by_session_id(chat_settings, chat_id)
            IN IF goc.created
               THEN /\ chat_settings' = goc.table
                    /\ messages' = SelectSeq(messages, LAMBDA m :
                                      \/ m.session_id # chat_id
                                      \/ \E i \in 1 .. Len(recent) : recent[i] = m)
                    /\ response' = Resp("get_chat", session_id, chat_id, [message_limit |-> message_limit], 500, NoBody)
               ELSE /\ response' = Resp("get_chat", session_id, chat_id, [message_limit |-> message_limit], 200,
                                        [chat |-> chats[chat_id], messages |-> recent,
                                         settings |-> goc.settings])
                    /\ UNCHANGED <<messages, chat_settings>>
    /\ UNCHANGED <<chats, clock, next_chat_id, inflight>>
    /\ UNCHANGED <<ai_vars, lifespan>>

\* PUT /chats/{chat_id}
update_chat(session_id, chat_id, update_data) ==
    /\ IF ~chat_of_session(chat_id, session_id)
       THEN /\ response' = Resp("update_chat", session_id, chat_id, update_data, 404, NoBody)
            /\ UNCHANGED chats
       ELSE /\ chats' = [chats EXCEPT ![chat_id] = update(@, update_data)]
            /\ response' = Resp("update_chat", session_id, chat_id, update_data, 200,
                                [chat |-> chats'[chat_id]])
    /\ UNCHANGED <<messages, chat_settings, clock, next_chat_id, inflight>>
    /\ UNCHANGED <<ai_vars, lifespan>>

\* DELETE /chats/{chat_id}: db.delete(obj) cascades to messages and settings
delete_chat(session_id, chat_id) ==
    /\ IF ~chat_of_session(chat_id, session_id)
       THEN /\ response' = Resp("delete_chat", session_id, chat_id, NoBody, 404, NoBody)
            /\ UNCHANGED <<chats, messages, chat_settings>>
       ELSE /\ chats' = [c \in DOMAIN chats \ {chat_id} |-> chats[c]]
            /\ messages' = cascade_messages(messages, chat_id)
            /\ chat_settings' = cascade_settings(chat_settings, chat_id)
            /\ response' = Resp("delete_chat", session_id, chat_id, NoBody, 200, NoBody)
    /\ UNCHANGED <<clock, next_chat_id, inflight>>
    /\ UNCHANGED <<ai_vars, lifespan>>

\* POST /chats/{chat_id}/archive?archived=...
archive_chat(session_id, chat_id, archived) ==
    /\ IF ~chat_of_session(chat_id, session_id)
       THEN /\ response' = Resp("archive_chat", session_id, chat_id, [archived |-> archived], 404, NoBody)
            /\ UNCHANGED chats
       ELSE /\ chats' = [chats EXCEPT ![chat_id].is_archived = archived]
            /\ response' = Resp("archive_chat", session_id, chat_id, [archived |-> archived], 200,
                                [chat |-> chats'[chat_id]])
    /\ UNCHANGED <<messages, chat_settings, clock, next_chat_id, inflight>>
    /\ UNCHANGED <<ai_vars, lifespan>>

\* POST /chats/{chat_id}/pin?pinned=...
pin_chat(session_id, chat_id, pinned) ==
    /\ IF ~chat_of_session(chat_id, session_id)
       THEN /\ response' = Resp("pin_chat", session_id, chat_id, [pinned |-> pinned], 404, NoBody)
            /\ UNCHANGED chats
       ELSE /\ chats' = [chats EXCEPT ![chat_id].is_pinned = pinned]
            /\ response' = Resp("pin_chat", session_id, chat_id, [pinned |-> pinned], 200,
                                [chat |-> chats'[chat_id]])
    /\ UNCHANGED <<messages, chat_settings, clock, next_chat_id, inflight>>
    /\ UNCHANGED <<ai_vars, lifespan>>

\* POST /chats/{chat_id}/messages, up to the await of the AI call.  A ValueError
\* (foreign chat, or float() of the stored temperature) is answered 404.
send_message_to_chat(session_id, chat_id, request) ==
    /\ IF ~chat_of_session(chat_id, session_id)
       THEN /\ response' = Resp("send_message_to_chat", session_id, chat_id, request, 404, NoBody)
            /\ UNCHANGED <<messages, chat_settings, clock, inflight>>
       ELSE LET b == send_begin(chats[chat_id], "chat", session_id, request)
            IN /\ messages' = b.messages
               /\ chat_settings' = b.chat_settings
               /\ clock' = b.clock
               /\ IF b.raised
                  THEN /\ response' = Resp("send_message_to_chat", session_id,
                                           chat_id, request, 404, NoBody)
                       /\ UNCHANGED inflight
                  ELSE /\ inflight' = inflight \cup {b.pending}
                       /\ response' = NoResponse
    /\ UNCHANGED <<chats, next_chat_id>>
    /\ UNCHANGED <<ai_vars, lifespan>>

\* the filter of get_or_create_session_chat with the is_archived test dropped
session_chats_with_archived(cs, session_id) ==
    {c \in DOMAIN cs : cs[c].session_id = session_id}

\* the filter of ChatRepository.get_or_create_session_chat
active_session_chats(cs, session_id) ==
    {c \in DOMAIN cs : cs[c].session_id = session_id /\ ~cs[c].is_archived}

\* "ORDER BY last_message_at DESC, created_at DESC": row c sorts before row d.
\* A null last_message_at sorts first (PostgreSQL) or last (SQLite); chats are
\* created in the order of their ids
sorts_before(cs, c, d, nulls_first) ==
    LET lc == cs[c].last_message_at
        ld == cs[d].last_message_at
    IN IF lc = None /\ ld = None THEN c > d
       ELSE IF lc = None THEN nulls_first
       ELSE IF ld = None THEN ~nulls_first
       ELSE IF Val(lc) # Val(ld) THEN Val(lc) > Val(ld)
       ELSE c > d

\* ".first()" of that query
first_chat(cs, candidates, nulls_first) ==
    CHOOSE c \in candidates : \A d \in candidates \ {c} : sorts_before(cs, c, d, nulls_first)

\* the row get_or_create_session_chat creates
new_session_chat(chat_id, session_id) ==
    [id |-> chat_id, session_id |-> session_id, title |-> NewChatTitle,
     model_name |-> DefaultModel, is_archived |-> FALSE, is_pinned |-> FALSE,
     message_count |-> 0, last_message_at |-> None]

\* ChatRepository.get_or_create_session_chat: the chat and the table after
get_or_create_session_chat(cs, session_id, fresh_id, nulls_first) ==
    LET existing == active_session_chats(cs, session_id) IN
    IF existing # {}
    THEN [chat |-> cs[first_chat(cs, existing, nulls_first)], chats |-> cs, created |-> FALSE]
    ELSE [chat |-> new_session_chat(fresh_id, session_id),
          chats |-> cs @@ (fresh_id :> new_session_chat(fresh_id, session_id)),
          created |-> TRUE]

\* the rest of send_message_to_session, on the outcome g of get_or_create_session_chat
send_to_session_chat(g, b, session_id, request) ==
    /\ chats' = g.chats
    /\ next_chat_id' = IF g.created THEN next_chat_id + 1 ELSE next_chat_id
    /\ messages' = b.messages
    /\ chat_settings' = b.chat_settings
    /\ clock' = b.clock
    /\ IF b.raised
       THEN /\ response' = Resp("send_message", session_id, g.chat.id, request, 404, NoBody)
            /\ UNCHANGED inflight
       ELSE /\ inflight' = inflight \cup {b.pending}
            /\ response' = NoResponse

send_in_chat(g, session_id, request) ==
    send_to_session_chat(g, send_begin(g.chat, "session", session_id, request),
                         session_id, request)

\* POST /messages (send_message_to_session), up to the await of the AI call
send_message(session_id, request, nulls_first) ==
    /\ send_in_chat(get_or_create_session_chat(chats, session_id, next_chat_id, nulls_first),
                    session_id, request)
    /\ UNCHANGED <<ai_vars, lifespan>>

\* the rows of a set of chats in the order of the query
RECURSIVE ordered_chats(_, _, _)
ordered_chats(cs, candidates, nulls_first) ==
    IF candidates = {} THEN <<>>
    ELSE LET c == first_chat(cs, candidates, nulls_first)
         IN <<cs[c]>> \o ordered_chats(cs, candidates \ {c}, nulls_first)

\* the filters of ChatRepository.get_session_chats
session_chats_filtered(cs, session_id, include_archived, filter_archived_only, filter_pinned_only) ==
    LET mine == {c \in DOMAIN cs : cs[c].session_id = session_id} IN
    IF filter_archived_only THEN {c \in mine : cs[c].is_archived}
    ELSE IF filter_pinned_only
    THEN {c \in mine : cs[c].is_pinned /\ (include_archived \/ ~cs[c].is_archived)}
    ELSE IF ~include_archived THEN {c \in mine : ~cs[c].is_archived}
    ELSE mine

\* ChatRepository.get_session_chats: ordered, then offset(skip).limit(limit)
get_session_chats(cs, session_id, skip, limit, include_archived, filter_archived_only, filter_pinned_only, nulls_first) ==
    LET rows == ordered_chats(cs, session_chats_filtered(cs, session_id, include_archived,
                                  filter_archived_only, filter_pinned_only), nulls_first)
    IN SubSeq(rows, skip + 1, Min(skip + limit, Len(rows)))

\* the answer of list_chats for the rows found
chat_list(session_id, request, rows) ==
    Resp("list_chats", session_id, 0, request, 200,
         [chats |-> rows, total |-> Len(rows), page |-> request.page,
          per_page |-> request.per_page, has_more |-> Len(rows) = request.per_page])

\* GET /chats/ without a search text: request is [filter, include_archived,
\* page, per_page]
list_chats(session_id, request, nulls_first) ==
    /\ response' = chat_list(session_id, request,
          LET skip == (request.page - 1) * request.per_page IN
          IF request.filter = Some("archived")
          THEN get_session_chats(chats, session_id, skip, request.per_page,
                                 TRUE, TRUE, FALSE, nulls_first)
          ELSE IF request.filter = Some("pinned")
          THEN get_session_chats(chats, session_id, skip, request.per_page,
                                 FALSE, FALSE, TRUE, nulls_first)
          ELSE IF request.filter = Some("active")
          THEN get_session_chats(chats, session_id, skip, request.per_page,
                                 FALSE, FALSE, FALSE, nulls_first)
          ELSE get_session_chats(chats, session_id, skip, request.per_page,
                                 request.include_archived, FALSE, FALSE, nulls_first))
    /\ UNCHANGED <<chats, messages, chat_settings, clock, next_chat_id, inflight>>
    /\ UNCHANGED <<ai_vars, lifespan>>

\* the operation a suspended request answers
op_of(r) == IF r.origin = "create" THEN "create_chat"
            ELSE IF r.origin = "session" THEN "send_message"
            ELSE "send_message_to_chat"

\* _send_message_to_chat_internal after the await: the assistant row (the reply
\* or the apology), update_last_message_time, the response; for create_chat the
\* title generated from the initial message.  The insert fails on the foreign
\* key when the chat was deleted meanwhile.
send_finish(r, content, message_metadata) ==
    IF r.chat_id \notin DOMAIN chats
    THEN /\ response' = Resp(op_of(r), r.session_id, r.chat_id, r.request, 500, NoBody)
         /\ UNCHANGED <<chats, messages, clock>>
    ELSE LET assistant_message == new_message(clock + 1, r.chat_id, "assistant",
                                              content, message_metadata)
             ms1 == Append(messages, assistant_message)
             updated == update_last_message_time(chats, ms1, r.chat_id, clock + 1, TRUE)
             title == generate_title_from_message(r.user_message.content)
             retitled == IF r.origin = "create" /\ title # r.user_message.content
                         THEN [updated EXCEPT ![r.chat_id] = update(@, [title |-> title])]
                         ELSE updated
             mine == chat_messages(ms1, r.chat_id)
         IN /\ messages' = ms1
            /\ clock' = clock + 1
            /\ chats' = retitled
            /\ response' =
                 IF r.origin = "create"
                 THEN Resp(op_of(r), r.session_id, r.chat_id, r.request, 200,
                           [chat |-> retitled[r.chat_id],
                            message |-> Some(mine[Len(mine)])])
                 ELSE Resp(op_of(r), r.session_id, r.chat_id, r.request,
                           IF Len(content) > 0 THEN 200 ELSE 500,
                           [user_message |-> r.user_message,
                            assistant_message |-> assistant_message,
                            chat_id |-> r.chat_id,
                            error |-> IF "error" \in DOMAIN message_metadata
                                      THEN Some(message_metadata.error) ELSE None,
                            message_count |-> updated[r.chat_id].message_count])

AIServiceErrorText == <<"AI service request failed">>

\* the AI call returned 200: ai_client.generate_response yields response["response"]
ai_call_returns(r) ==
    /\ r \in inflight
    /\ r.stage = "replied"
    /\ r.reply.status = 200
    /\ send_finish(r, r.reply.response, EmptyMap)
    /\ inflight' = inflight \ {r}
    /\ UNCHANGED <<chat_settings, next_chat_id>>
    /\ UNCHANGED <<ai_vars, lifespan>>

\* the except branch re-raising AIServiceError instead of storing the apology
ai_call_fails_reraises(r) ==
    /\ r \in inflight
    /\ response' = Resp(op_of(r), r.session_id, r.chat_id, r.request, 500, NoBody)
    /\ inflight' = inflight \ {r}
    /\ UNCHANGED <<chats, messages, clock, chat_settings, next_chat_id>>
    /\ UNCHANGED <<ai_vars, lifespan>>

\* the AI call raised AIServiceError: connection failure or timeout at any
\* point, or an error status
ai_call_fails(r) ==
    /\ r \in inflight
    /\ send_finish(r, ApologyText, [error |-> AIServiceErrorText])
    /\ inflight' = inflight \ {r}
    /\ UNCHANGED <<chat_settings, next_chat_id>>
    /\ UNCHANGED <<ai_vars, lifespan>>

\* POST /chats/{chat_id}/system-message.  The handler has no "except
\* HTTPException: raise": its own 400 for a missing content ends as 500.
add_system_message(session_id, chat_id, content) ==
    /\ IF content = None
       THEN /\ response' = Resp("add_system_message", session_id, chat_id, EmptyMap, 500, NoBody)
            /\ UNCHANGED <<chats, messages, clock>>
       ELSE IF ~chat_of_session(chat_id, session_id)
       THEN /\ response' = Resp("add_system_message", session_id, chat_id,
                                [content |-> Val(content)], 404, NoBody)
            /\ UNCHANGED <<chats, messages, clock>>
       ELSE LET system_message == new_message(clock + 1, chat_id, "system",
                                              Val(content), EmptyMap)
                ms1 == Append(messages, system_message)
            IN /\ messages' = ms1
               /\ clock' = clock + 1
               /\ chats' = update_last_message_time(chats, ms1, chat_id, clock + 1, FALSE)
               /\ response' = Resp("add_system_message", session_id, chat_id,
                                   [content |-> Val(content)],
                                   IF Len(Val(content)) > 0 THEN 200 ELSE 500,
                                   [system_message |-> system_message])
    /\ UNCHANGED <<chat_settings, next_chat_id, inflight>>
    /\ UNCHANGED <<ai_vars, lifespan>>

\* GET /chats/{chat_id}/settings.  The handler raises HTTPException(404) inside
\* its try block and catches it with "except Exception", which answers 500.
get_chat_settings(session_id, chat_id) ==
    /\ IF ~chat_of_session(chat_id, session_id)
       THEN /\ response' = Resp("get_chat_settings", session_id, chat_id, NoBody, 500, NoBody)
            /\ UNCHANGED chat_settings
       ELSE LET goc == get_or_create_by_session_id(chat_settings, chat_id)
            IN /\ chat_settings' = goc.table
               /\ response' = Resp("get_chat_settings", session_id, chat_id, NoBody, 200,
                                   [settings |-> goc.settings])
    /\ UNCHANGED <<chats, messages, clock, next_chat_id, inflight>>
    /\ UNCHANGED <<ai_vars, lifespan>>

\* PUT /chats/{chat_id}/settings; update_data is settings_update.dict(exclude_unset=True).
\* Like get_chat_settings, the handler turns its own 404 into 500.
update_chat_settings(session_id, chat_id, update_data) ==
    /\ IF ~chat_of_session(chat_id, session_id)
       THEN /\ response' = Resp("update_chat_settings", session_id, chat_id, update_data, 500, NoBody)
            /\ UNCHANGED chat_settings
       ELSE LET goc == get_or_create_by_session_id(chat_settings, chat_id)
                updated_settings == update(goc.settings, update_data)
            IN /\ chat_settings' = (goc.table \ {goc.settings}) \cup {updated_settings}
               /\ response' = Resp("update_chat_settings", session_id, chat_id, update_data, 200,
                                   [settings |-> updated_settings])
    /\ UNCHANGED <<chats, messages, clock, next_chat_id, inflight>>
    /\ UNCHANGED <<ai_vars, lifespan>>

\* ---- the AI service's endpoints
AiResult(op, request, g) ==
    [op |-> op, request |-> request, status |-> g.status, raised |-> g.raised,
     response |-> g.response, model |-> g.model, decode |-> g.decode]

\* the AI service serves the /generate request of a suspended send-message
ai_served(r, g) ==
    /\ loaded_models' = g.loaded_models
    /\ current_model' = g.current_model
    /\ inflight' = (inflight \ {r}) \cup
          {[r EXCEPT !.stage = "replied",
                     !.reply = [status |-> g.status, response |-> g.response,
                                model |-> g.model, decode |-> g.decode]]}

ai_serve(r, nd) ==
    /\ r \in inflight
    /\ r.stage = "sent"
    /\ ai_served(r, generate_endpoint(loaded_models, current_model,
                                      [model |-> Some(r.model), messages |-> r.messages,
                                       parameters |-> Some(r.parameters)], nd))
    /\ response' = NoResponse
    /\ UNCHANGED <<chats, messages, chat_settings, clock, next_chat_id, ai_result, lifespan>>

\* POST /generate from any client
generated(request, g) ==
    /\ loaded_models' = g.loaded_models
    /\ current_model' = g.current_model
    /\ ai_result' = AiResult("generate", request, g)

generate(request, nd) ==
    /\ generated(request, generate_endpoint(loaded_models, current_model, request, nd))
    /\ UNCHANGED <<api_vars, lifespan>>

NoGen == [status |-> 0, raised |-> FALSE, response |-> <<>>, model |-> None,
          decode |-> NoDecode]
ModelRequest(model_id) == [model |-> Some(model_id), messages |-> <<>>, parameters |-> None]

is_available(model_id) == \E i \in 1 .. Len(AvailableModels) : AvailableModels[i] = model_id

\* POST /models/{model_id}/load
load_model_endpoint(model_id, pretrained_ok) ==
    /\ IF ~is_available(model_id)
       THEN /\ ai_result' = AiResult("load", ModelRequest(model_id), [NoGen EXCEPT !.status = 404])
            /\ UNCHANGED <<loaded_models, current_model>>
       ELSE LET ld == load_model(loaded_models, current_model, model_id, pretrained_ok)
            IN /\ loaded_models' = ld.loaded_models
               /\ current_model' = ld.current_model
               /\ ai_result' = AiResult("load", ModelRequest(model_id),
                                   [NoGen EXCEPT !.status = IF ld.success THEN 200 ELSE 500])
    /\ UNCHANGED <<api_vars, lifespan>>

\* DELETE /models/{model_id}/unload
unload_model_endpoint(model_id) ==
    /\ IF ~is_model_loaded(loaded_models, model_id)
       THEN /\ ai_result' = AiResult("unload", ModelRequest(model_id), [NoGen EXCEPT !.status = 404])
            /\ UNCHANGED <<loaded_models, current_model>>
       ELSE LET ul == unload_model(loaded_models, current_model, model_id)
            IN /\ loaded_models' = ul.loaded_models
               /\ current_model' = ul.current_model
               /\ ai_result' = AiResult("unload", ModelRequest(model_id),
                                   [NoGen EXCEPT !.status = IF ul.success THEN 200 ELSE 500])
    /\ UNCHANGED <<api_vars, lifespan>>

\* POST /models/{model_id}/switch
switch_model(model_id, pretrained_ok) ==
    /\ IF ~is_available(model_id)
       THEN /\ ai_result' = AiResult("switch", ModelRequest(model_id), [NoGen EXCEPT !.status = 404])
            /\ UNCHANGED <<loaded_models, current_model>>
       ELSE LET ld == IF is_model_loaded(loaded_models, model_id)
                      THEN [loaded_models |-> loaded_models,
                            current_model |-> current_model, success |-> TRUE]
                      ELSE load_model(loaded_models, current_model, model_id, pretrained_ok)
                sc == set_current_model(ld.loaded_models, ld.current_model, model_id)
            IN IF ~ld.success
               THEN /\ ai_result' = AiResult("switch", ModelRequest(model_id),
                                        [NoGen EXCEPT !.status = 500])
                    /\ UNCHANGED <<loaded_models, current_model>>
               ELSE /\ loaded_models' = ld.loaded_models
                    /\ current_model' = sc.current_model
                    /\ ai_result' = AiResult("switch", ModelRequest(model_id),
                                        [NoGen EXCEPT !.status =
                                            IF sc.success THEN 200 ELSE 500])
    /\ UNCHANGED <<api_vars, lifespan>>

\* ================================================================== inputs
PlainCreate == [title |-> None, model_name |-> DefaultModel, initial_message |-> None]
TitledCreate ==
    [title |-> Some(<<"T">>), model_name |-> DefaultModel,
     initial_message |-> Some(<<"h", "i", ".">>)]

ChatUpdates == {[title |-> <<"R">>]}

PlainSend == [content |-> <<"h", "i">>, model_parameters |-> EmptyMap]
TunedSend == [content |-> <<"y", "o">>, model_parameters |-> [max_tokens |-> Some(200)]]

SettingsUpdates ==
    {[max_tokens |-> Some(200)],
     [temperature |-> Some("1.5"), system_prompt |-> Some(<<"p">>)],
     [temperature |-> Some("hot"), system_prompt |-> Some(<<WS>>)]}

TunedSettings == [max_tokens |-> Some(200), temperature |-> Some("1.5")]

\* requests that leave fields out, set them, or set them to null
PartialUpdates ==
    SettingsUpdates \cup
    {EmptyMap, [system_prompt |-> None], [max_tokens |-> None, temperature |-> Some("0.05")]}

PromptUpdates ==
    {[system_prompt |-> Some(<<"p">>)], [system_prompt |-> Some(<<WS, WS>>)],
     [system_prompt |-> Some(<<>>)], [system_prompt |-> None]}

\* outcomes of the third-party calls of one /generate
\* (gen is not consulted when the load fails)
Outcomes == {[load |-> FALSE, gen |-> "reply"]} \cup [load : {TRUE}, gen : GenOutcomes]
ServeOutcomes == [load : {TRUE}, gen : {"raise", "reply"}]

UpperBlenderbot == <<"Facebook/", "BlenderBot", "-3B">>
ModelIds == {DefaultModel, DialoGPTSmall, UpperBlenderbot}

ThreeTurns ==
    <<[role |-> "user", content |-> <<"a">>], [role |-> "assistant", content |-> <<"b">>],
      [role |-> "user", content |-> <<"c">>]>>

\* the last user message followed by an assistant message
UserThenAssistant ==
    <<[role |-> "user", content |-> <<"a">>], [role |-> "user", content |-> <<"c", "d">>],
      [role |-> "assistant", content |-> <<"b">>]>>

GenerateMessages ==
    {<<>>,
     <<[role |-> "system", content |-> <<"p">>], [role |-> "assistant", content |-> <<"o", "k">>]>>,
     ThreeTurns, UserThenAssistant}

GenerateParameters ==
    {None, Some(EmptyMap), Some([max_tokens |-> Some(1000)]), Some([max_tokens |-> Some(100)]),
     Some([max_tokens |-> None]), Some([temperature |-> Some(5)]),
     Some([temperature |-> Some(150), max_tokens |-> Some(500)]),
     Some([temperature |-> Some(10), max_length |-> Some(700)])}

\* every model with every message list, and every parameter map with one model
GenerateRequests ==
    [model : {None} \cup {Some(m) : m \in ModelIds}, messages : GenerateMessages,
     parameters : {None}]
    \cup [model : {Some(DefaultModel), Some(DialoGPTSmall)}, messages : {ThreeTurns},
          parameters : GenerateParameters]

\* ------------------------------------------------------------- API startup
\* main.lifespan: where the coroutine is, and whether init_db created the
\* tables, check_db_connection succeeded, the AI health check succeeded
Lifespan(pc, tables, connection, ai_verified) == [pc |-> pc, tables |-> tables, connection |-> connection, ai_verified |-> ai_verified]

Starting == Lifespan("init_db", FALSE, FALSE, FALSE)
Started == Lifespan("yield", TRUE, TRUE, TRUE)

\* init_db(): Base.metadata.create_all; its exception is re-raised by init_db
\* and by lifespan, which ends the startup
lifespan_init_db(ok) ==
    /\ lifespan.pc = "init_db"
    /\ lifespan' = IF ok
                   THEN [lifespan EXCEPT !.pc = "check_db_connection", !.tables = TRUE]
                   ELSE [lifespan EXCEPT !.pc = "raised"]
    /\ UNCHANGED <<api_vars, ai_vars>>

\* a startup that goes on whatever check_db_connection returned
after_check_db_connection_unchecked(ok) == "health_check"

\* "if not check_db_connection(): raise Exception(...)", re-raised by lifespan
after_check_db_connection(ok) == IF ~ok THEN "raised" ELSE "health_check"

\* check_db_connection(): SELECT 1; False when it fails
lifespan_check_db_connection(ok) ==
    /\ lifespan.pc = "check_db_connection"
    /\ lifespan' = [lifespan EXCEPT !.pc = after_check_db_connection(ok), !.connection = ok]
    /\ UNCHANGED <<api_vars, ai_vars>>

\* ai_client.health_check(): its exception is logged as a warning, then yield
lifespan_health_check(ok) ==
    /\ lifespan.pc = "health_check"
    /\ lifespan' = [lifespan EXCEPT !.pc = "yield", !.ai_verified = ok]
    /\ UNCHANGED <<api_vars, ai_vars>>

\* requests are served between the yield of lifespan and the shutdown
serving == lifespan.pc = "yield"

\* ---- the guards that bound the exploration
FreshChat == next_chat_id <= MaxChats
Room(cap, n) == clock + Cardinality(inflight) + n <= cap
CanSend(cap) == Cardinality(inflight) < MaxInflight /\ Room(cap, 2)

\* ============================================================ specifications
NoAiResult == AiResult("none", ModelRequest(<<>>), NoGen)

Init ==
    /\ chats = EmptyMap
    /\ messages = <<>>
    /\ chat_settings = {}
    /\ clock = 0
    /\ next_chat_id = 1
    /\ inflight = {}
    /\ response = NoResponse
    /\ loaded_models = <<>>
    /\ current_model = None
    /\ ai_result = NoAiResult
    /\ lifespan = Started

\* the API service called by two sessions, with the AI service behind it
Next ==
    \/ \E s \in Sessions : FreshChat /\ create_chat(s, PlainCreate)
    \/ \E s \in Sessions, c \in ChatIds : get_chat(s, c, DefaultMessageLimit)
    \/ \E s \in Sessions, c \in ChatIds, u \in ChatUpdates : update_chat(s, c, u)
    \/ \E s \in Sessions, c \in ChatIds : delete_chat(s, c)
    \/ \E s \in Sessions, c \in ChatIds, a \in BOOLEAN : archive_chat(s, c, a)
    \/ \E s \in Sessions, c \in ChatIds, a \in BOOLEAN : pin_chat(s, c, a)
    \/ \E s \in Sessions, c \in ChatIds :
          CanSend(MaxMsgs) /\ send_message_to_chat(s, c, PlainSend)
    \/ \E s \in Sessions, c \in ChatIds :
          Room(MaxMsgs, 1) /\ add_system_message(s, c, Some(<<"s">>))
    \/ \E s \in Sessions, c \in ChatIds : get_chat_settings(s, c)
    \/ \E s \in Sessions, c \in ChatIds, u \in {TunedSettings, [temperature |-> Some("hot")]} :
          update_chat_settings(s, c, u)
    \/ \E r \in inflight : ai_serve(r, [load |-> TRUE, gen |-> "reply"])
    \/ \E r \in inflight : ai_call_returns(r)
    \/ \E r \in inflight : ai_call_fails(r)

Spec == Init /\ [][Next]_vars

\* the AI service on its own
AiNext ==
    \/ \E req \in GenerateRequests, nd \in Outcomes : generate(req, nd)
    \/ \E m \in ModelIds, ok \in BOOLEAN : load_model_endpoint(m, ok)
    \/ \E m \in ModelIds : unload_model_endpoint(m)
    \/ \E m \in ModelIds, ok \in BOOLEAN : switch_model(m, ok)

AiSpec == Init /\ [][AiNext]_vars

\* one session sending messages, interleaved with deletion and system messages
Owner == "s1"

SendNext ==
    \/ FreshChat /\ create_chat(Owner, PlainCreate)
    \/ FreshChat /\ CanSend(MaxMsgs + 1) /\ create_chat(Owner, TitledCreate)
    \/ \E c \in ChatIds, req \in {PlainSend, TunedSend} :
          CanSend(MaxMsgs + 1) /\ send_message_to_chat(Owner, c, req)
    \/ \E c \in ChatIds : Room(MaxMsgs + 1, 1) /\ add_system_message(Owner, c, Some(<<"s">>))
    \/ \E c \in ChatIds : delete_chat(Owner, c)
    \/ \E r \in inflight, nd \in ServeOutcomes : ai_serve(r, nd)
    \/ \E r \in inflight : ai_call_returns(r)
    \/ \E r \in inflight : ai_call_fails(r)

SendSpec == Init /\ [][SendNext]_vars

\* the settings endpoints called by two sessions
SettingsNext ==
    \/ \E s \in Sessions : FreshChat /\ create_chat(s, PlainCreate)
    \/ \E s \in Sessions, c \in ChatIds : get_chat_settings(s, c)
    \/ \E s \in Sessions, c \in ChatIds, u \in PartialUpdates : update_chat_settings(s, c, u)
    \/ \E s \in Sessions, c \in ChatIds : delete_chat(s, c)

SettingsSpec == Init /\ [][SettingsNext]_vars

\* a chat that already holds a conversation as long as the context window, or
\* one round trip shorter: rows alternate user / assistant, as the sends of
\* the owner left them
Letters == <<"a", "b", "c", "d", "e", "f", "g", "h", "i", "j", "k", "l">>

History(n) ==
    [i \in 1 .. n |-> new_message(i, 1, IF i % 2 = 1 THEN "user" ELSE "assistant",
                                  <<Letters[i]>>, EmptyMap)]

CtxInit ==
    \E n \in {MaxContext - 2, MaxContext} :
        /\ chats = (1 :> [id |-> 1, session_id |-> Owner, title |-> NewChatTitle,
                          model_name |-> DefaultModel, is_archived |-> FALSE,
                          is_pinned |-> FALSE, message_count |-> n,
                          last_message_at |-> Some(n)])
        /\ messages = History(n)
        /\ chat_settings = {default_settings(1)}
        /\ clock = n
        /\ next_chat_id = 2
        /\ inflight = {}
        /\ response = NoResponse
        /\ loaded_models = <<>>
        /\ current_model = None
        /\ ai_result = NoAiResult
        /\ lifespan = Started

CtxNext ==
    \/ \E u \in PromptUpdates : update_chat_settings(Owner, 1, u)
    \/ Room(MaxContext + MaxMsgs, 1) /\ add_system_message(Owner, 1, Some(<<"s">>))
    \/ CanSend(MaxContext + MaxMsgs) /\ send_message_to_chat(Owner, 1, PlainSend)
    \/ \E r \in inflight : ai_serve(r, [load |-> TRUE, gen |-> "reply"])
    \/ \E r \in inflight : ai_call_returns(r)
    \/ \E r \in inflight : ai_call_fails(r)

CtxSpec == CtxInit /\ [][CtxNext]_vars

\* POST /messages used by two sessions next to creating and archiving chats
MaxSessionChats == MaxChats + 1
SessionChatIds == 1 .. MaxSessionChats

SessionNext ==
    \/ \E s \in Sessions : next_chat_id <= MaxSessionChats /\ create_chat(s, PlainCreate)
    \/ \E c \in SessionChatIds, a \in BOOLEAN : archive_chat(Owner, c, a)
    \/ \E c \in SessionChatIds : update_chat_settings(Owner, c, [temperature |-> Some("hot")])
    \/ \E s \in Sessions, nulls_first \in BOOLEAN :
          /\ CanSend(MaxMsgs)
          /\ active_session_chats(chats, s) # {} \/ next_chat_id <= MaxSessionChats
          /\ send_message(s, PlainSend, nulls_first)
    \/ \E r \in inflight : ai_call_fails(r)

SessionSpec == Init /\ [][SessionNext]_vars

\* list requests: every filter with the default page, the default listing
\* with and without include_archived, and pages of one chat
DefaultPerPage == 50

ListRequests ==
    [filter : {None, Some("active"), Some("archived"), Some("pinned")},
     include_archived : {FALSE}, page : {1}, per_page : {DefaultPerPage}]
    \cup [filter : {None}, include_archived : {TRUE}, page : {1}, per_page : {DefaultPerPage}]
    \cup [filter : {Some("archived")}, include_archived : {FALSE}, page : {1, 2},
          per_page : {1}]

\* chats created, archived, pinned, listed and read by two sessions
ArchiveNext ==
    \/ \E s \in Sessions : next_chat_id <= MaxSessionChats /\ create_chat(s, PlainCreate)
    \/ \E s \in Sessions, c \in SessionChatIds, a \in BOOLEAN : archive_chat(s, c, a)
    \/ \E s \in Sessions, c \in SessionChatIds, a \in BOOLEAN : pin_chat(s, c, a)
    \/ \E s \in Sessions, c \in SessionChatIds :
          Room(MaxMsgs - 1, 1) /\ add_system_message(s, c, Some(<<"s">>))
    \/ \E s \in Sessions, c \in SessionChatIds : get_chat_settings(s, c)
    \/ \E s \in Sessions, c \in SessionChatIds, n \in {1, DefaultMessageLimit} :
          get_chat(s, c, n)
    \/ \E s \in Sessions, req \in ListRequests, nulls_first \in BOOLEAN :
          list_chats(s, req, nulls_first)

ArchiveSpec == Init /\ [][ArchiveNext]_vars

\* the four operations that need a chat's settings
NeedNext ==
    \/ FreshChat /\ create_chat(Owner, PlainCreate)
    \/ \E s \in Sessions, c \in ChatIds : get_chat_settings(s, c)
    \/ \E c \in ChatIds, u \in {TunedSettings, [system_prompt |-> Some(<<"p">>)]} :
          update_chat_settings(Owner, c, u)
    \/ \E s \in Sessions, c \in ChatIds : get_chat(s, c, DefaultMessageLimit)
    \/ \E c \in ChatIds : CanSend(MaxMsgs) /\ send_message_to_chat(Owner, c, PlainSend)
    \/ \E c \in ChatIds : delete_chat(Owner, c)
    \/ \E r \in inflight : ai_call_fails(r)

NeedSpec == Init /\ [][NeedNext]_vars

\* the API service from its start: the startup, then one session's requests
StartupInit ==
    /\ chats = EmptyMap
    /\ messages = <<>>
    /\ chat_settings = {}
    /\ clock = 0
    /\ next_chat_id = 1
    /\ inflight = {}
    /\ response = NoResponse
    /\ loaded_models = <<>>
    /\ current_model = None
    /\ ai_result = NoAiResult
    /\ lifespan = Starting

StartupNext ==
    \/ \E ok \in BOOLEAN : lifespan_init_db(ok)
    \/ \E ok \in BOOLEAN : lifespan_check_db_connection(ok)
    \/ \E ok \in BOOLEAN : lifespan_health_check(ok)
    \/ serving /\ FreshChat /\ create_chat(Owner, PlainCreate)
    \/ \E c \in ChatIds : serving /\ get_chat(Owner, c, DefaultMessageLimit)
    \/ \E c \in ChatIds : serving /\ CanSend(MaxMsgs) /\ send_message_to_chat(Owner, c, PlainSend)
    \/ \E c \in ChatIds : serving /\ delete_chat(Owner, c)
    \/ \E c \in ChatIds, a \in BOOLEAN : serving /\ archive_chat(Owner, c, a)
    \/ \E c \in ChatIds : serving /\ Room(MaxMsgs, 1) /\ add_system_message(Owner, c, Some(<<"s">>))
    \/ \E r \in inflight : ai_call_fails(r)

StartupSpec == StartupInit /\ [][StartupNext]_vars

\* two send-message requests of one session that may both be suspended at the
\* await of the AI call
CanInterleave == Cardinality(inflight) < MaxInflight + 1 /\ Room(MaxMsgs + 1, 2)

RaceNext ==
    \/ FreshChat /\ create_chat(Owner, PlainCreate)
    \/ \E c \in ChatIds, req \in {PlainSend, TunedSend} :
          CanInterleave /\ send_message_to_chat(Owner, c, req)
    \/ \E r \in inflight, nd \in ServeOutcomes : ai_serve(r, nd)
    \/ \E r \in inflight : ai_call_returns(r)
    \/ \E r \in inflight : ai_call_fails(r)

RaceSpec == Init /\ [][RaceNext]_vars

\* one session's sends answered by the AI service in every way it can answer:
\* the model loads or not, the decoding gives text, nothing, an echo, or raises
DialogptCreate == [title |-> None, model_name |-> DialoGPTSmall, initial_message |-> None]

AnswerNext ==
    \/ \E req \in {PlainCreate, DialogptCreate} : FreshChat /\ create_chat(Owner, req)
    \/ FreshChat /\ CanSend(MaxMsgs + 1) /\ create_chat(Owner, TitledCreate)
    \/ \E c \in ChatIds : CanSend(MaxMsgs + 1) /\ send_message_to_chat(Owner, c, PlainSend)
    \/ \E r \in inflight, nd \in Outcomes : ai_serve(r, nd)
    \/ \E r \in inflight : ai_call_returns(r)
    \/ \E r \in inflight : ai_call_fails(r)

AnswerSpec == Init /\ [][AnswerNext]_vars

\* ================================================================== claims
ChatOps ==
    {"get_chat", "update_chat", "delete_chat", "archive_chat", "pin_chat",
     "send_message_to_chat", "add_system_message", "get_chat_settings",
     "update_chat_settings"}

\* the step answered an operation addressed to a chat of another session
ForeignCall ==
    /\ response'.op \in ChatOps
    /\ response'.chat_id \in DOMAIN chats
    /\ chats[response'.chat_id].session_id # response'.session_id

\* C1: every chat operation addressed by chat id whose caller's session differs
\* from the chat's session_id reports not-found (status 404) and leaves chats,
\* messages and settings unchanged.
C1_foreign_session_not_found ==
    [][ForeignCall => response'.status = 404 /\ UNCHANGED db]_vars

\* C2: GenerationService.generate_response never raises and returns a non-empty
\* string, whether the model was loaded, its loading failed or the model
\* loader's generation raised: every /generate ends with status 200 and a
\* non-empty response.
C2_generation_never_raises ==
    ai_result.op = "generate" =>
        /\ ~ai_result.raised
        /\ ai_result.status = 200
        /\ Len(ai_result.response) > 0

\* a loaded model whose decoding raised, answered by the fallback text
C2_witness ==
    /\ ai_result.op = "generate"
    /\ ai_result.request.parameters = Some([max_tokens |-> None])
    /\ is_model_loaded(loaded_models, Val(ai_result.model))
    /\ ai_result.response = generate_fallback_response(Val(ai_result.model),
                                                       ai_result.request.messages)

\* the send-message request r ends in this step although the AI service gave
\* it no 200 answer, and its chat still exists
AiCallFailed(r) ==
    /\ r \in inflight
    /\ \A q \in inflight' : q.user_message # r.user_message
    /\ r.origin = "chat"
    /\ r.chat_id \in DOMAIN chats
    /\ (r.stage = "sent" \/ r.reply.status # 200)

\* C3: when the AI call of a send-message on an existing chat fails, the
\* operation answers 200: the user message is still persisted, exactly one row
\* is added after it - an assistant message with the apology text and an
\* 'error' entry in its metadata -, the chat's last_message_at and message_count
\* are updated, and the response carries both messages.
C3_ai_failure_stores_apology ==
    [][\A r \in inflight : AiCallFailed(r) =>
          /\ Len(messages') > 0
          /\ LET a == messages'[Len(messages')]
                 c == r.chat_id
             IN /\ response'.status = 200
                /\ \E i \in 1 .. Len(messages) : messages[i] = r.user_message
                /\ messages' = Append(messages, a)
                /\ a.session_id = c
                /\ a.role = "assistant"
                /\ a.content = ApologyText
                /\ "error" \in DOMAIN a.message_metadata
                /\ a.created_at > r.user_message.created_at
                /\ chats'[c].last_message_at = Some(a.created_at)
                /\ chats'[c].last_message_at # chats[c].last_message_at
                /\ chats'[c].message_count =
                      Cardinality({i \in 1 .. Len(messages') : messages'[i].session_id = c})
                /\ response'.body.user_message = r.user_message
                /\ response'.body.assistant_message = a]_vars

\* a send answered with the apology after the AI call failed
C3_witness ==
    /\ response.op = "send_message_to_chat"
    /\ response.status = 200
    /\ response.body.error # None
    /\ response.body.assistant_message.content = ApologyText
    /\ response.body.assistant_message = messages[Len(messages)]

\* the response of a completed send-message (also the one create_chat runs for
\* an initial message)
CompletedSend ==
    /\ response.status = 200
    /\ \/ response.op = "send_message_to_chat"
       \/ response.op = "create_chat" /\ response.body.message # None

RowsOf(c) == {i \in 1 .. Len(messages) : messages[i].session_id = c}

NonBlank(t) == \E i \in 1 .. Len(t) : t[i] # WS

\* C5: the message list of a send-message is the system prompt of the chat's
\* settings as a system message, if and only if that prompt is not null and not
\* blank, followed by the (at most 10) most recently persisted messages of the
\* chat, oldest first, the last being the user message this operation added.
C5_prompt_then_recent_context ==
    [][\A r \in inflight' \ inflight : r.stage = "sent" =>
          LET rows == chat_messages(messages', r.chat_id)
              n == Len(rows)
              k == IF n > 10 THEN 10 ELSE n
              recent == [i \in 1 .. k |-> [role |-> rows[n - k + i].role,
                                           content |-> rows[n - k + i].content]]
              stored == CHOOSE row \in chat_settings' : row.session_id = r.chat_id
              prompt == stored.system_prompt
              head == IF prompt # None /\ NonBlank(Val(prompt))
                      THEN <<[role |-> "system", content |-> Val(prompt)]>>
                      ELSE <<>>
          IN /\ k >= 1
             /\ r.messages = head \o recent
             /\ rows[n] = r.user_message
             /\ recent[k] = [role |-> "user", content |-> r.request.content]]_vars

\* a send on a chat with more than 10 rows and a system prompt: the prompt and
\* the 10 newest rows
C5_witness ==
    \E r \in inflight :
        /\ r.stage = "sent"
        /\ Len(chat_messages(messages, r.chat_id)) > 10
        /\ Len(r.messages) = 11
        /\ r.messages[1].role = "system"
        /\ r.messages[11] = [role |-> "user", content |-> r.request.content]

\* C6: for a message sent without request-level model_parameters, the length
\* limit of the model loader is min(max_tokens, 500) of the max_tokens stored in
\* the chat's settings, and the temperature it samples with is the stored
\* temperature clamped to [0.1, 1.0].
C6_settings_drive_generation ==
    \A r \in inflight :
        (/\ r.stage = "replied"
         /\ r.reply.decode.routine # "none"
         /\ r.origin = "chat"
         /\ DOMAIN r.request.model_parameters = {}
         /\ r.settings.max_tokens # None
         /\ r.settings.temperature # None
         /\ float_ok(Val(r.settings.temperature)))
        => /\ r.reply.decode.max_length =
                 (IF Val(r.settings.max_tokens) < 500
                  THEN Val(r.settings.max_tokens) ELSE 500)
           /\ r.reply.decode.temperature =
                 (LET t == float_of(Val(r.settings.temperature))
                  IN IF t < 10 THEN 10 ELSE IF t > 100 THEN 100 ELSE t)

\* the parameter map of the last /generate request
GivenParameters ==
    IF ai_result.request.parameters = None THEN EmptyMap
    ELSE Val(ai_result.request.parameters)

Decoded == ai_result.op = "generate" /\ ai_result.decode.routine # "none"

\* C7: the length limit handed to the decoding routine is min(max_tokens, 500),
\* max_tokens being 150 when the parameter map has none: never above 500.
C7_length_limit_capped ==
    Decoded =>
        LET max_tokens == IF "max_tokens" \in DOMAIN GivenParameters
                          THEN Val(GivenParameters.max_tokens) ELSE 150
        IN /\ ai_result.decode.max_length = (IF max_tokens < 500 THEN max_tokens ELSE 500)
           /\ ai_result.decode.max_length <= 500

\* max_tokens 1000 decoded with the limit 500
C7_witness ==
    /\ Decoded
    /\ "max_tokens" \in DOMAIN GivenParameters
    /\ GivenParameters.max_tokens = Some(1000)
    /\ ai_result.decode.max_length = 500

\* C8: the temperature handed to the decoding routine is the given one (0.8
\* when absent) clamped to [0.1, 1.0], and sampling is on exactly when that
\* temperature is above 0.1.
C8_temperature_clamped ==
    Decoded =>
        LET given == IF "temperature" \in DOMAIN GivenParameters
                     THEN Val(GivenParameters.temperature) ELSE 80
            t == ai_result.decode.temperature
        IN /\ 10 <= t /\ t <= 100
           /\ t = (IF given < 10 THEN 10 ELSE IF given > 100 THEN 100 ELSE given)
           /\ ai_result.decode.do_sample = (t > 10)

\* temperature 1.5 decoded at 1.0 with sampling
C8_witness ==
    /\ Decoded
    /\ "temperature" \in DOMAIN GivenParameters
    /\ GivenParameters.temperature = Some(150)
    /\ ai_result.decode.temperature = 100
    /\ ai_result.decode.do_sample

\* the names that contain "blenderbot" in some letter case
BlenderbotNames == {DefaultModel, UpperBlenderbot}

\* C9: a loaded model is dispatched to the BlenderBot routine (its stored type
\* is "conversational") if and only if its name contains 'blenderbot' in any
\* letter case, which is exactly when it was loaded with the BlenderBot
\* classes; every other loaded model is decoded by the DialoGPT routine.
C9_dispatch_follows_family ==
    /\ \A i \in 1 .. Len(loaded_models) :
          LET e == loaded_models[i] IN
          /\ (e.type = "conversational") <=> (e.name \in BlenderbotNames)
          /\ (e.model = "Blenderbot") <=> (e.name \in BlenderbotNames)
    /\ Decoded =>
          /\ (ai_result.decode.routine = "blenderbot")
                <=> (Val(ai_result.model) \in BlenderbotNames)
          /\ (ai_result.decode.routine = "dialogpt")
                <=> (Val(ai_result.model) \notin BlenderbotNames)
          /\ (ai_result.decode.routine = "blenderbot")
                <=> (entry_of(loaded_models, Val(ai_result.model)).model = "Blenderbot")

\* a name spelled "BlenderBot" decoded by the BlenderBot routine
C9_witness ==
    /\ Decoded
    /\ ai_result.model = Some(UpperBlenderbot)
    /\ ai_result.decode.routine = "blenderbot"
    /\ entry_of(loaded_models, UpperBlenderbot).model = "Blenderbot"

SettingsFields == {"temperature", "max_tokens", "system_prompt"}

\* C10: update_chat_settings stores the value of every field present in the
\* request and leaves every omitted field (temperature, max_tokens,
\* system_prompt) at its previously stored value.
C10_update_changes_present_fields_only ==
    [][(response'.op = "update_chat_settings" /\ response'.status = 200) =>
          LET c == response'.chat_id
              update_data == response'.request
              after == CHOOSE row \in chat_settings' : row.session_id = c
          IN /\ \E row \in chat_settings' : row.session_id = c
             /\ response'.body.settings = after
             /\ \A f \in SettingsFields :
                   IF f \in DOMAIN update_data
                   THEN after[f] = update_data[f]
                   ELSE \A row \in chat_settings :
                           row.session_id = c => after[f] = row[f]]_vars

\* an update without max_tokens on settings whose max_tokens was set to 200
C10_witness ==
    /\ response.op = "update_chat_settings"
    /\ response.status = 200
    /\ "max_tokens" \notin DOMAIN response.request
    /\ "temperature" \in DOMAIN response.request
    /\ response.body.settings.max_tokens = Some(200)

SettingsOf(st, c) == {row \in st : row.session_id = c}

\* the step ran an operation that needs the settings of chat c: get settings,
\* update settings, get chat with messages, or send message, by c's owner
SettingsNeeded(c) ==
    \/ /\ response'.op \in {"get_chat", "get_chat_settings", "update_chat_settings"}
       /\ response'.chat_id = c
       /\ chat_of_session(c, response'.session_id)
    \/ /\ response'.op = "send_message_to_chat"
       /\ response'.chat_id = c
       /\ chat_of_session(c, response'.session_id)
    \/ \E r \in inflight' \ inflight : r.stage = "sent" /\ r.chat_id = c

\* the settings the step handed to its caller, when it handed any
SettingsReturned(c) ==
    {r.settings : r \in {q \in inflight' \ inflight : q.stage = "sent" /\ q.chat_id = c}}
    \cup (IF /\ response'.op \in {"get_chat", "get_chat_settings", "update_chat_settings"}
             /\ response'.chat_id = c
             /\ response'.status = 200
          THEN {response'.body.settings} ELSE {})

\* C11: the first operation that needs a chat's settings (get settings, update
\* settings, get chat with messages, send message) creates one settings record
\* with temperature '0.7', max_tokens 1000 and no system prompt; every later
\* access returns the stored record and creates none, so a chat never has more
\* than one settings record.
C11_one_settings_record_per_chat ==
    /\ [](\A c \in ChatIds : Cardinality(SettingsOf(chat_settings, c)) <= 1)
    /\ [][\A c \in ChatIds : SettingsNeeded(c) =>
            LET before == SettingsOf(chat_settings, c)
                after == SettingsOf(chat_settings', c)
                expected == IF before = {} THEN {default_settings(c)} ELSE before
            IN /\ Cardinality(after) = 1
               /\ IF response'.op = "update_chat_settings"
                  THEN after = {update(row, response'.request) : row \in expected}
                  ELSE after = expected
               /\ SettingsReturned(c) \subseteq after
               /\ \A d \in ChatIds \ {c} :
                     SettingsOf(chat_settings', d) = SettingsOf(chat_settings, d)]_vars

\* a later get of settings that an update had changed: the one stored record
C11_witness ==
    /\ response.op = "get_chat_settings"
    /\ response.status = 200
    /\ response.body.settings.max_tokens = Some(200)
    /\ SettingsOf(chat_settings, response.chat_id) = {response.body.settings}

\* the step began a POST /messages of session s, which went to chat c
SessionSendBegun(s, c) ==
    \/ \E r \in inflight' \ inflight :
          r.origin = "session" /\ r.stage = "sent" /\ r.session_id = s /\ r.chat_id = c
    \/ /\ response'.op = "send_message"
       /\ response'.status = 404
       /\ response'.session_id = s
       /\ response'.chat_id = c

\* C12: POST /messages creates a chat titled 'New Chat' with the default model
\* if and only if the caller's session has no non-archived chat; otherwise it
\* creates none and appends the message to a non-archived chat of that session.
\* The number of chats grows by at most one, and not at all when the AI's
\* answer is stored.
C12_session_send_creates_chat_iff_none_active ==
    [][/\ \A s \in Sessions, c \in SessionChatIds : SessionSendBegun(s, c) =>
            LET active == {d \in DOMAIN chats :
                              chats[d].session_id = s /\ ~chats[d].is_archived}
                user_message == messages'[Len(messages')]
            IN /\ IF active = {}
                  THEN /\ c \notin DOMAIN chats
                       /\ DOMAIN chats' = DOMAIN chats \cup {c}
                       /\ chats'[c].title = NewChatTitle
                       /\ chats'[c].model_name = DefaultModel
                       /\ chats'[c].session_id = s
                       /\ ~chats'[c].is_archived
                  ELSE /\ c \in active
                       /\ chats' = chats
               /\ \A d \in DOMAIN chats : chats'[d] = chats[d]
               /\ Cardinality(DOMAIN chats') <= Cardinality(DOMAIN chats) + 1
               /\ messages' = Append(messages, user_message)
               /\ user_message.session_id = c
               /\ user_message.role = "user"
       /\ (response'.op = "send_message" /\ response'.status # 404)
             => DOMAIN chats' = DOMAIN chats]_vars

\* a POST /messages answered from a new chat while the session's other chat is
\* archived
C12_witness ==
    /\ response.op = "send_message"
    /\ response.status = 200
    /\ response.chat_id \in DOMAIN chats
    /\ chats[response.chat_id].title = NewChatTitle
    /\ response.body.user_message.session_id = response.chat_id
    /\ \E d \in DOMAIN chats :
          /\ d < response.chat_id
          /\ chats[d].session_id = response.session_id
          /\ chats[d].is_archived

\* the ids of the chats a list response returned
Listed == {response.body.chats[i].id : i \in 1 .. Len(response.body.chats)}

SessionChats(s) == {c \in DOMAIN chats : chats[c].session_id = s}

\* a list response whose page holds every chat of the session
FullPage ==
    /\ response.op = "list_chats"
    /\ response.status = 200
    /\ response.request.page = 1
    /\ response.request.per_page >= Cardinality(SessionChats(response.session_id))

\* filter=archived returns exactly the archived chats of the session,
\* filter=active exactly the others, the default listing no archived chat
ListingsFollowFlag ==
    /\ (FullPage /\ response.request.filter = Some("archived"))
          => Listed = {c \in SessionChats(response.session_id) : chats[c].is_archived}
    /\ (FullPage /\ response.request.filter = Some("active"))
          => Listed = {c \in SessionChats(response.session_id) : ~chats[c].is_archived}
    /\ (/\ response.op = "list_chats"
        /\ response.request.filter = None
        /\ ~response.request.include_archived)
          => \A i \in 1 .. Len(response.body.chats) : ~response.body.chats[i].is_archived
    /\ response.op = "list_chats"
          => \A i \in 1 .. Len(response.body.chats) :
                /\ response.body.chats[i].id \in DOMAIN chats
                /\ response.body.chats[i] = chats[response.body.chats[i].id]

\* its owner reading an archived chat by id gets the chat and its messages
ArchivedRetrievable ==
    (/\ response.op = "get_chat"
     /\ chat_of_session(response.chat_id, response.session_id)
     /\ chats[response.chat_id].is_archived)
    => /\ response.status = 200
       /\ response.body.chat = chats[response.chat_id]
       /\ LET rows == chat_messages(messages, response.chat_id)
          IN Len(rows) <= response.request.message_limit => response.body.messages = rows

\* C13: archiving is a reversible flag, not a deletion: each chat of a session
\* is returned by exactly one of the listings filter=active and filter=archived
\* (page size permitting), by filter=archived exactly when is_archived is true;
\* the default listing never returns an archived chat; and an archived chat
\* with its messages is returned when its owner reads it by id.
C13_archived_listed_and_retrievable ==
    ListingsFollowFlag /\ ArchivedRetrievable

\* the model id of the request the AI service answers in this step
Asked == Val(ai_result'.request.model)

\* C14: load_model is idempotent: called for a model that is already loaded it
\* returns success (the load endpoint answers 200, also when the model files
\* could not be fetched again) and leaves the loaded models and the current
\* model unchanged.
C14_load_is_idempotent ==
    [][(ai_result'.op = "load" /\ is_model_loaded(loaded_models, Asked)) =>
          /\ UNCHANGED <<loaded_models, current_model>>
          /\ is_available(Asked) => ai_result'.status = 200
          /\ \A ok \in BOOLEAN :
                LET ld == load_model(loaded_models, current_model, Asked, ok)
                IN /\ ld.success
                   /\ ld.loaded_models = loaded_models
                   /\ ld.current_model = current_model]_vars

\* a load of the model that was loaded first, answered 200 with two models loaded
C14_witness ==
    /\ ai_result.op = "load"
    /\ ai_result.status = 200
    /\ Len(loaded_models) = 2
    /\ loaded_models[1].name = Val(ai_result.request.model)

\* C15: unloading a model that is not loaded is an error without effect:
\* ModelLoader.unload_model returns False, the unload endpoint answers 404, and
\* the loaded models and the current model are unchanged.
C15_unload_of_unloaded_is_rejected ==
    [][(ai_result'.op = "unload" /\ ~is_model_loaded(loaded_models, Asked)) =>
          /\ ai_result'.status = 404
          /\ UNCHANGED <<loaded_models, current_model>>
          /\ LET ul == unload_model(loaded_models, current_model, Asked)
             IN /\ ~ul.success
                /\ ul.loaded_models = loaded_models
                /\ ul.current_model = current_model]_vars

\* an unload of a model that is not loaded, answered 404 while another is
\* loaded and current
C15_witness ==
    /\ ai_result.op = "unload"
    /\ ai_result.status = 404
    /\ ~is_model_loaded(loaded_models, Val(ai_result.request.model))
    /\ Len(loaded_models) > 0
    /\ current_model = Some(loaded_models[1].name)

\* C16: after a successful switch the model is loaded and is the current model;
\* a model outside the configured list is answered 404 and a failed load 500,
\* and both leave the current model (and the loaded models) unchanged.
C16_switch_sets_current_or_changes_nothing ==
    [][ai_result'.op = "switch" =>
          /\ ai_result'.status \in {200, 404, 500}
          /\ ai_result'.status = 200 =>
                /\ is_model_loaded(loaded_models', Asked)
                /\ current_model' = Some(Asked)
          /\ ~is_available(Asked) => ai_result'.status = 404
          /\ (/\ is_available(Asked)
              /\ ~is_model_loaded(loaded_models, Asked)
              /\ ~is_model_loaded(loaded_models', Asked)) => ai_result'.status = 500
          /\ ai_result'.status # 200 => UNCHANGED <<loaded_models, current_model>>]_vars

\* a switch to the model loaded second, which became the current model
C16_witness ==
    /\ ai_result.op = "switch"
    /\ ai_result.status = 200
    /\ Len(loaded_models) = 2
    /\ loaded_models[2].name = Val(ai_result.request.model)
    /\ current_model = ai_result.request.model

\* the contents of the user-role messages of the last /generate request
AskedByUser == contents_with_role(ai_result.request.messages, {"user"})

\* C17: for every message list without a user-role message (the empty list
\* included) generate_response returns exactly the text
\* 'Hello! How can I help you today?'.
C17_greeting_without_user_message ==
    (ai_result.op = "generate" /\ Len(AskedByUser) = 0)
        => ai_result.response = <<"Hello! How can I help you today?">>

\* the last /generate was answered for a model that could not be loaded
NotLoadable ==
    /\ ai_result.op = "generate"
    /\ ai_result.model # None
    /\ ~is_model_loaded(loaded_models, Val(ai_result.model))

\* C18: for every message list with at least one user-role message, the
\* response generated for a model that cannot be loaded contains the content of
\* the last user-role message of the list.
C18_fallback_quotes_last_user_message ==
    (NotLoadable /\ Len(AskedByUser) > 0)
        => /\ ai_result.status = 200
           /\ Contains(ai_result.response, AskedByUser[Len(AskedByUser)])

\* the fallback for a list whose last user message is followed by an assistant
\* message: the last user content is quoted, the earlier one is not
C18_witness ==
    /\ NotLoadable
    /\ ai_result.request.messages = UserThenAssistant
    /\ Contains(ai_result.response, <<"c", "d">>)
    /\ ~Contains(ai_result.response, <<"a">>)

\* C19: when a /generate request names no model, the model field of the
\* response is 'default'.
C19_model_field_default ==
    (ai_result.op = "generate" /\ ai_result.request.model = None /\ ai_result.status = 200)
        => ai_result.model = Some(<<"default">>)

\* the rows of chat c written by the user or the assistant
ConversationRows(c) ==
    {i \in 1 .. Len(messages) :
        messages[i].session_id = c /\ messages[i].role \in {"user", "assistant"}}

\* C20: system messages are not counted in message_count: adding one leaves
\* the count unchanged, and whenever no send-message is under way the count of
\* a chat is the number of its user and assistant messages.
C20_system_messages_not_counted ==
    /\ [](inflight = {} =>
            \A c \in DOMAIN chats :
                chats[c].message_count = Cardinality(ConversationRows(c)))
    /\ [][(response'.op = "add_system_message" /\ response'.chat_id \in DOMAIN chats) =>
            chats'[response'.chat_id].message_count
                = chats[response'.chat_id].message_count]_vars

\* C21: create_chat gives the new chat the title supplied in the request
\* whenever one is supplied; 'New Chat' or a title derived from the initial
\* message is used only when the request carries no title.
C21_supplied_title_is_kept ==
    (/\ response.op = "create_chat"
     /\ response.status = 200
     /\ TruthyText(response.request.title))
    => /\ response.body.chat.title = Val(response.request.title)
       /\ response.chat_id \in DOMAIN chats
             => chats[response.chat_id].title = Val(response.request.title)

\* C22: unloading the current model makes another model that is still loaded
\* the current model if there is one and sets the current model to None
\* otherwise; unloading a model that is not the current one leaves the current
\* model unchanged.
C22_unload_moves_current_model ==
    [][(ai_result'.op = "unload" /\ ai_result'.status = 200) =>
          /\ is_model_loaded(loaded_models, Asked)
          /\ ~is_model_loaded(loaded_models', Asked)
          /\ \A m \in ModelIds \ {Asked} :
                is_model_loaded(loaded_models', m) <=> is_model_loaded(loaded_models, m)
          /\ IF current_model = Some(Asked)
             THEN IF Len(loaded_models') > 0
                  THEN /\ current_model' # None
                       /\ is_model_loaded(loaded_models', Val(current_model'))
                  ELSE current_model' = None
             ELSE current_model' = current_model]_vars

\* the model loaded first was unloaded and the model that is left is current
C22_witness ==
    /\ ai_result.op = "unload"
    /\ ai_result.status = 200
    /\ ai_result.request.model = Some(DefaultModel)
    /\ Len(loaded_models) = 1
    /\ loaded_models[1].name = DialoGPTSmall
    /\ current_model = Some(DialoGPTSmall)

\* C25: in every reachable state of the AI service the current model is unset
\* (None) or one of the loaded models.
C25_current_model_is_loaded ==
    current_model = None \/ is_model_loaded(loaded_models, Val(current_model))

\* C26: only configured models are ever loaded: every loaded model is in the
\* configured list of available models.
C26_loaded_models_are_configured ==
    \A i \in 1 .. Len(loaded_models) : is_available(loaded_models[i].name)

C24_serving_only_after_database_startup ==
    /\ [](serving => lifespan.tables /\ lifespan.connection)
    /\ []((/\ lifespan.pc \notin {"init_db", "check_db_connection"}
           /\ ~(lifespan.tables /\ lifespan.connection))
          => lifespan.pc = "raised")
    /\ [][api_vars' # api_vars => serving /\ serving']_vars
    /\ [][lifespan.pc = "raised" => lifespan' = lifespan]_vars
    /\ [][lifespan.pc = "health_check" => lifespan'.pc = "yield"]_vars

\* a request answered by a service whose AI health check had failed
C24_witness ==
    /\ serving
    /\ ~lifespan.ai_verified
    /\ response.op = "create_chat"
    /\ response.status = 200

\* the step in which the suspended request r begins / is answered
SendBegins(r) == r \in inflight' /\ \A q \in inflight : q.user_message # r.user_message
SendCompletes(r) == r \in inflight /\ \A q \in inflight' : q.user_message # r.user_message

\* C27: when two send-message requests to the same chat interleave at their
\* awaits of the AI service no message is lost: no step removes or changes a
\* persisted row, a request that begins persists its user message, a request
\* that completes persists an assistant message next to its user message, the
\* AI call of each request ends with its own user message, and once no
\* request is under way message_count is the number of persisted messages.
C27_interleaved_sends_lose_no_message ==
    /\ [][/\ Len(messages') >= Len(messages)
          /\ SubSeq(messages', 1, Len(messages)) = messages]_vars
    /\ [][\A r \in inflight' : SendBegins(r) => messages' = Append(messages, r.user_message)]_vars
    /\ [][\A r \in inflight : SendCompletes(r) =>
              /\ Len(messages') = Len(messages) + 1
              /\ messages'[Len(messages')].role = "assistant"
              /\ messages'[Len(messages')].session_id = r.chat_id
              /\ \E i \in 1 .. Len(messages) : messages'[i] = r.user_message]_vars
    /\ [](\A r \in inflight :
              /\ Len(r.messages) > 0
              /\ r.messages[Len(r.messages)]
                    = [role |-> "user", content |-> r.user_message.content])
    /\ [](inflight = {} =>
              \A c \in DOMAIN chats :
                  chats[c].message_count = Len(chat_messages(messages, c)))

\* two requests were suspended together and both have completed: the two user
\* messages were stored before either assistant message
C27_witness ==
    /\ inflight = {}
    /\ Len(messages) = 4
    /\ messages[1].role = "user" /\ messages[2].role = "user"
    /\ messages[1].content # messages[2].content
    /\ messages[3].role = "assistant" /\ messages[4].role = "assistant"
    /\ \A i \in 1 .. 4 : messages[i].session_id = 1
    /\ 1 \in DOMAIN chats /\ chats[1].message_count = 4

\* C28: every assistant message persisted by the API service has non-empty
\* content, whatever the AI call gave: a completion of the model, the fallback
\* text of the AI service when the model cannot be loaded, or a failed call
\* replaced by the apology text.
C28_assistant_content_not_empty ==
    \A i \in 1 .. Len(messages) :
        messages[i].role = "assistant" => Len(messages[i].content) > 0

\* a chat holding the apology for a failed call and the limited-mode fallback
\* of a model that did not load
C28_witness ==
    \E i, j \in 1 .. Len(messages) :
        /\ messages[i].role = "assistant"
        /\ messages[i].content = ApologyText
        /\ messages[j].role = "assistant"
        /\ messages[j].content[1] = "I understand you're asking about '"

====
